---------------------------- MODULE Spec2Model ----------------------------
(***************************************************************************)
(* Verification model of the inmanta OpenStack module                      *)
(* (src/plugins/__init__.py).                                              *)
(*                                                                         *)
(* Part I   dependency inference: openstack_dependencies and               *)
(*          keystone_dependencies, run over one batch of declared          *)
(*          resources (specification SpecDeps).                            *)
(* Part II  the SecurityGroup handler: check_resource, _diff,              *)
(*          list_changes, do_changes and _update_rules, run against a      *)
(*          neutron store (specification SpecSG).                          *)
(* Part III the connection handles of pre and post (SpecPre).              *)
(* Part IV  single calls of do_changes, facts and read_resource of other   *)
(*          handlers (SpecCall).                                           *)
(* Part V   reads and diffs of other handlers (SpecRead).                  *)
(* Part VI  the passes of the HostPort handler over one port (SpecPort).    *)
(* Part VII FloatingIP handlers that share one pool of floating ips and    *)
(*          run concurrently (SpecFip).                                    *)
(*                                                                         *)
(* A resource of a batch is identified by (entity type, name): the         *)
(* dependency managers key their dictionaries by res.name per entity type, *)
(* so the batches modelled hold one agent's resources.                     *)
(***************************************************************************)
EXTENDS Integers, Sequences, FiniteSets, TLC

VARIABLES
    batch,      \* resource_model: the set of declared resources
    requires,   \* res.requires of every resource of the batch (as identities)
    todo,       \* resources the dependency managers' loops have not visited yet
    err         \* the exception that ended dependency inference, or NoError

depVars == <<batch, requires, todo, err>>

VARIABLES
    declared,   \* the SecurityGroup resource as exported
    desired,    \* the resource object of the current pass
    remote,     \* neutron: [groups, nextId]
    current,    \* what check_resource returned in this pass
    changes,    \* the changeset list_changes returned in this pass
    calls,      \* the mutating neutron calls do_changes issued in this pass
    outcome,    \* how this pass' handler calls ended
    pc,         \* "start", "diffed" (list_changes returned), "end"
    passNo,     \* the pass that is running
    prevDone    \* the previous pass ended without SkipResource or error

sgVars == <<declared, desired, remote, current, changes, calls, outcome, pc,
            passNo, prevDone>>

VARIABLES
    connections,    \* the class dicts __connections: class -> (key -> handle)
    handlers,       \* per handler instance: its credentials and its pre call
    hcall,          \* one handler call: the function, its arguments, the cloud
    hresult         \* that call's adapter calls and how it ended

hVars == <<connections, handlers, hcall, hresult>>

vars == <<depVars, sgVars, hVars>>

-----------------------------------------------------------------------------
(* Part I: dependency inference                                            *)

\* Bound: the largest batch drawn from Universe.
MaxBatch == 7

NoName == ""

\* What the variables of the part that is not running hold.
Idle == "idle"

TProject == "openstack::Project"
TNetwork == "openstack::Network"
TRouter == "openstack::Router"
TSubnet == "openstack::Subnet"
THost == "openstack::Host"
THostPort == "openstack::HostPort"
TFloatingIP == "openstack::FloatingIP"
TRouterPort == "openstack::RouterPort"
TUser == "openstack::User"
TRole == "openstack::Role"

\* The exported fields of a resource that the dependency managers read.
\* ports is Host.ports reduced to each port's "network" entry, which
\* Host.get_ports fills with p.subnet.name.
Base(kind, name) ==
    [kind |-> kind, name |-> name, project |-> NoName, network |-> NoName,
     subnet |-> NoName, host |-> NoName, router |-> NoName, subnets |-> <<>>,
     ports |-> <<>>, external_network |-> NoName, port |-> NoName,
     user |-> NoName]

Project(name) == Base(TProject, name)
User(name) == Base(TUser, name)
Network(name, project) == [Base(TNetwork, name) EXCEPT !.project = project]
Subnet(name, project, network) ==
    [Base(TSubnet, name) EXCEPT !.project = project, !.network = network]
Router(name, project, subnets) ==
    [Base(TRouter, name) EXCEPT !.project = project, !.subnets = subnets]
Host(name, project, ports) ==
    [Base(THost, name) EXCEPT !.project = project, !.ports = ports]
\* HostPort.get_subnet is port.subnet.name, get_network port.subnet.network.name
HostPort(name, project, subnet, network, host) ==
    [Base(THostPort, name) EXCEPT !.project = project, !.subnet = subnet,
                                  !.network = network, !.host = host]
RouterPort(name, project, subnet, network, router) ==
    [Base(TRouterPort, name) EXCEPT !.project = project, !.subnet = subnet,
                                    !.network = network, !.router = router]
FloatingIP(name, project, port, external_network) ==
    [Base(TFloatingIP, name) EXCEPT !.project = project, !.port = port,
                                    !.external_network = external_network]
Role(role_id, project, user) ==
    [Base(TRole, role_id) EXCEPT !.project = project, !.user = user]

\* The resources batches are drawn from. Every reference names a resource of
\* the universe, so a reference dangles exactly when the batch leaves its
\* target out.  Subnet "n1" carries the name of its network.
Universe ==
    { Project("p1"), User("u1"), Role("p1_u1_admin", "p1", "u1"),
      Network("n1", "p1"),
      Subnet("s1", "p1", "n1"), Subnet("n1", "p1", "n1"),
      Router("r1", "p1", <<"s1">>),
      Host("h1", "p1", <<"s1">>),
      HostPort("hp1", "p1", "s1", "n1", "h1"),
      RouterPort("rp1", "p1", "s1", "n1", "r1"),
      FloatingIP("f1", "p1", "hp1", "n1") }

Id(r) == <<r.kind, r.name>>

Ids(S) == {Id(r) : r \in S}

\* Edges the declaring system may have attached before inference runs.
DeclaredChoices ==
    { {}, {<<Id(Project("p1")), Id(Network("n1", "p1"))>>},
          {<<Id(Network("n1", "p1")), Id(Subnet("s1", "p1", "n1"))>>} }

NoError == [type |-> "none", missing |-> NoName, referrer |-> NoName]

\* A dictionary lookup d[key] that fails: KeyError carries the key only.
KeyError(key) == [type |-> "KeyError", missing |-> key, referrer |-> NoName]

\* raise Exception("The <what> %s of role %s is not defined in the model.")
RoleError(key, role_id) ==
    [type |-> "Exception", missing |-> key, referrer |-> role_id]

\* The dictionaries the first loop of a dependency manager builds:
\* the resources of one entity type, keyed by name.
Named(kind) == {r \in batch : r.kind = kind}

Has(kind, name) == \E r \in Named(kind) : r.name = name

\* The order of the loops of openstack_dependencies, then the role loop of
\* keystone_dependencies.
LoopOf(kind) ==
    CASE kind = TNetwork -> 1
      [] kind = TRouter -> 2
      [] kind = TSubnet -> 3
      [] kind = THost -> 4
      [] kind = THostPort -> 5
      [] kind = TFloatingIP -> 6
      [] kind = TRole -> 7
      [] OTHER -> 0

\* r is next: no resource of an earlier loop is still to be visited.  Within
\* one loop the dictionary's order is the batch's order, which is arbitrary.
IsNext(r) ==
    /\ err = NoError
    /\ r \in todo
    /\ \A q \in todo : LoopOf(q.kind) >= LoopOf(r.kind)

\* Faulty variant of AddAll: requires is assigned the resource found.
RECURSIVE AddAllReplacing(_, _, _)
AddAllReplacing(req, r, lookups) ==
    IF lookups = <<>> THEN [req |-> req, err |-> NoError]
    ELSE LET kind == Head(lookups)[1]
             key == Head(lookups)[2]
         IN IF Has(kind, key)
            THEN AddAllReplacing([req EXCEPT ![Id(r)] = {<<kind, key>>}], r,
                                 Tail(lookups))
            ELSE [req |-> req, err |-> KeyError(key)]

\* A run of requires.add(d[key]) statements, in order, stopped by the first
\* KeyError: lookups is a sequence of <<entity type, key>>.
RECURSIVE AddAll(_, _, _)
AddAll(req, r, lookups) ==
    IF lookups = <<>> THEN [req |-> req, err |-> NoError]
    ELSE LET kind == Head(lookups)[1]
             key == Head(lookups)[2]
         IN IF Has(kind, key)
            THEN AddAll([req EXCEPT ![Id(r)] = @ \cup {<<kind, key>>}], r,
                        Tail(lookups))
            ELSE [req |-> req, err |-> KeyError(key)]

\* if x.model.project.name in projects: x.requires.add(projects[...])
GuardedProject(r) ==
    IF Has(TProject, r.project) THEN <<<<TProject, r.project>>>> ELSE <<>>

Visit(r, lookups) ==
    LET res == AddAll(requires, r, lookups)
    IN /\ requires' = res.req
       /\ err' = res.err
       /\ todo' = todo \ {r}
       /\ UNCHANGED <<batch, sgVars, hVars>>

\* The lookups of one iteration of each loop of openstack_dependencies.
NetworkLookups(r) == GuardedProject(r)

RouterLookups(r) ==
    GuardedProject(r)
    \o [i \in 1..Len(r.subnets) |-> <<TSubnet, r.subnets[i]>>]

\* Faulty variant: the subnet loop without its second statement (line 406).
SubnetLookupsNoNetwork(r) == <<<<TProject, r.project>>>>

SubnetLookups(r) == <<<<TProject, r.project>>, <<TNetwork, r.network>>>>

HostLookups(r) ==
    <<<<TProject, r.project>>>>
    \o [i \in 1..Len(r.ports) |-> <<TSubnet, r.ports[i]>>]

\* subnets[port.network]: the subnet is looked up under the network's name.
HostPortLookups(r) ==
    <<<<TProject, r.project>>, <<TSubnet, r.network>>, <<THost, r.host>>>>

FloatingIPLookups(r) ==
    <<<<TNetwork, r.external_network>>, <<THostPort, r.port>>>>

NetworkLoop ==
    \E r \in todo :
        /\ IsNext(r) /\ r.kind = TNetwork
        /\ Visit(r, NetworkLookups(r))

RouterLoop ==
    \E r \in todo :
        /\ IsNext(r) /\ r.kind = TRouter
        /\ Visit(r, RouterLookups(r))

SubnetLoop ==
    \E r \in todo :
        /\ IsNext(r) /\ r.kind = TSubnet
        /\ Visit(r, SubnetLookups(r))

HostLoop ==
    \E r \in todo :
        /\ IsNext(r) /\ r.kind = THost
        /\ Visit(r, HostLookups(r))

HostPortLoop ==
    \E r \in todo :
        /\ IsNext(r) /\ r.kind = THostPort
        /\ Visit(r, HostPortLookups(r))

FloatingIPLoop ==
    \E r \in todo :
        /\ IsNext(r) /\ r.kind = TFloatingIP
        /\ Visit(r, FloatingIPLookups(r))

\* keystone_dependencies: both checks come before both additions.
RoleLoop ==
    \E r \in todo :
        /\ IsNext(r) /\ r.kind = TRole
        /\ todo' = todo \ {r}
        /\ UNCHANGED <<batch, sgVars, hVars>>
        /\ IF ~Has(TProject, r.project)
           THEN err' = RoleError(r.project, r.name) /\ UNCHANGED requires
           ELSE IF ~Has(TUser, r.user)
           THEN err' = RoleError(r.user, r.name) /\ UNCHANGED requires
           ELSE /\ err' = NoError
                /\ requires' = [requires EXCEPT ![Id(r)] =
                                   @ \cup {<<TProject, r.project>>,
                                           <<TUser, r.user>>}]

InitDeps ==
    /\ batch \in {B \in SUBSET Universe : Cardinality(B) <= MaxBatch}
    /\ \E D \in DeclaredChoices :
          /\ \A e \in D : e[1] \in Ids(batch) /\ e[2] \in Ids(batch)
          /\ requires = [i \in Ids(batch) |-> {e[2] : e \in {d \in D : d[1] = i}}]
    /\ todo = {r \in batch : LoopOf(r.kind) > 0}
    /\ err = NoError
    /\ declared = Idle /\ desired = Idle /\ remote = Idle /\ current = Idle
    /\ changes = Idle /\ calls = Idle /\ outcome = Idle /\ pc = Idle
    /\ passNo = 0 /\ prevDone = FALSE
    /\ connections = Idle /\ handlers = Idle
    /\ hcall = Idle /\ hresult = Idle

NextDeps ==
    \/ NetworkLoop
    \/ RouterLoop
    \/ SubnetLoop
    \/ HostLoop
    \/ HostPortLoop
    \/ FloatingIPLoop
    \/ RoleLoop

SpecDeps == InitDeps /\ [][NextDeps]_vars

\* Dependency inference returned: every loop ran to its end.
DepsDone == todo = {} /\ err = NoError

\* Dependency inference was ended by an exception.
DepsFailed == err # NoError

-----------------------------------------------------------------------------
(* Part II: the SecurityGroup handler                                      *)
(*                                                                         *)
(* A Python dict is a function from its keys; a list is a sequence.  The   *)
(* neutron service is a store: it keeps what create and update calls give  *)
(* it, and refuses (Conflict) a rule equal to one the group already has.   *)
(* The @cache decorators of the lookups are transparent here: every lookup *)
(* reads the store.                                                        *)

\* Bounds: the longest declared and the longest initial remote rule list, and
\* the number of passes run over one resource.
MaxRules == 2
MaxPass == 2

None == "<None>"

\* The managed group and the group that rules may name as remote_group.
SgName == "sg1"
PeerName == "g1"

\* The id neutron gives the group of a name (one group per name is modelled).
GroupId(name) == IF name = SgName THEN "uuid-sg1" ELSE "uuid-g1"

\* SecurityGroup.get_rules: the dicts a declared rule is exported as.  An
\* IP rule carries remote_ip_prefix, a group rule carries remote_group.
DeclaredRule(protocol, direction, port) ==
    [protocol |-> protocol, direction |-> direction,
     port_range_min |-> port, port_range_max |-> port]

IPRule(protocol, direction, port, prefix) ==
    [k \in {"protocol", "direction", "port_range_min", "port_range_max",
            "remote_ip_prefix"} |->
        IF k = "remote_ip_prefix" THEN prefix
        ELSE DeclaredRule(protocol, direction, port)[k]]

GroupRule(protocol, direction, port, group) ==
    [k \in {"protocol", "direction", "port_range_min", "port_range_max",
            "remote_group"} |->
        IF k = "remote_group" THEN group
        ELSE DeclaredRule(protocol, direction, port)[k]]

RuleChoices ==
    { IPRule("tcp", "ingress", "22", "0.0.0.0/0"),
      IPRule("all", "egress", None, "0.0.0.0/0"),
      GroupRule("tcp", "ingress", "22", PeerName) }

\* A rule as neutron lists it in sg["security_group_rules"].
RemoteRule(id, ethertype, protocol, prefix, group_id, direction, port) ==
    [id |-> id, ethertype |-> ethertype, protocol |-> protocol,
     remote_ip_prefix |-> prefix, remote_group_id |-> group_id,
     direction |-> direction, port_range_min |-> port,
     port_range_max |-> port]

\* The rules a group may hold when the first pass starts (ids not yet given):
\* the three declared rules as neutron stores them, neutron's default egress
\* rule (no prefix), and an IPv6 rule.
RemoteChoices ==
    { RemoteRule(0, "IPv4", "tcp", "0.0.0.0/0", None, "ingress", "22"),
      RemoteRule(0, "IPv4", None, "0.0.0.0/0", None, "egress", None),
      RemoteRule(0, "IPv4", None, None, None, "egress", None),
      RemoteRule(0, "IPv4", "tcp", None, GroupId(PeerName), "ingress", "22"),
      RemoteRule(0, "IPv6", None, None, None, "egress", None) }

Range(seq) == {seq[i] : i \in 1..Len(seq)}

SeqsUpTo(S, n) == UNION {[1..k -> S] : k \in 0..n}

Injective(seq) == \A i, j \in 1..Len(seq) : seq[i] = seq[j] => i = j

\* seq without its first element equal to x (list.remove); seq must hold x.
RECURSIVE RemoveFirst(_, _)
RemoveFirst(seq, x) ==
    IF seq = <<>> THEN <<>>
    ELSE IF Head(seq) = x THEN Tail(seq)
    ELSE <<Head(seq)>> \o RemoveFirst(Tail(seq), x)

\* d[k] = v on a dict; del d[k].
DictSet(d, k, v) == [x \in DOMAIN d \cup {k} |-> IF x = k THEN v ELSE d[x]]
DictDel(d, k) == [x \in DOMAIN d \ {k} |-> d[x]]

\* Keys that start with "__": "__id" is the only one the handler writes.
DunderKeys == {"__id"}

HasGroup(rem, name) == name \in DOMAIN rem.groups

\* The None that get_security_group returns, as a group with no id.
NoGroup == [id |-> None, description |-> None, rules |-> <<>>]

\* get_security_group(name=...): the listed group, or None.
GetSecurityGroup(rem, name) ==
    IF HasGroup(rem, name) THEN rem.groups[name] ELSE NoGroup

\* get_security_group(id=...)["name"]
GroupNameOfId(rem, id) ==
    CHOOSE n \in DOMAIN rem.groups : rem.groups[n].id = id

\* check_resource: one neutron rule as a rule dict of current.rules.
ObservedRule(rem, rule) ==
    LET protocol == IF rule.protocol = None THEN "all" ELSE rule.protocol
        base == [k \in {"__id", "protocol", "direction", "port_range_min",
                        "port_range_max"} |->
                    CASE k = "__id" -> rule.id
                      [] k = "protocol" -> protocol
                      [] k = "direction" -> rule.direction
                      [] k = "port_range_min" -> rule.port_range_min
                      [] k = "port_range_max" -> rule.port_range_max]
    IN IF rule.remote_ip_prefix # None
       THEN DictSet(base, "remote_ip_prefix", rule.remote_ip_prefix)
       ELSE IF rule.remote_group_id # None
       THEN DictSet(base, "remote_group",
                    GroupNameOfId(rem, rule.remote_group_id))
       ELSE DictSet(base, "remote_ip_prefix", "0.0.0.0/0")

RECURSIVE ObservedRules(_, _)
ObservedRules(rem, rules) ==
    IF rules = <<>> THEN <<>>
    ELSE IF Head(rules).ethertype # "IPv4"
    THEN ObservedRules(rem, Tail(rules))
    ELSE <<ObservedRule(rem, Head(rules))>> \o ObservedRules(rem, Tail(rules))

\* SecurityGroupHandler.check_resource: current is a clone of the resource;
\* purged is written only when the group is absent.
CheckResource(res, rem) ==
    LET sg == GetSecurityGroup(rem, res.name)
    IN IF sg = NoGroup
       THEN [res EXCEPT !.purged = TRUE, !.rules = <<>>]
       ELSE [res EXCEPT !.description = sg.description,
                        !.rules = ObservedRules(rem, sg.rules)]

\* The fields _diff walks; the fields a SecurityGroup inherits besides purged
\* (project, credentials) are never written by check_resource and left out.
SgFields == {"name", "description", "manage_all", "rules", "purged"}

\* NeutronHandler._diff.  No field of a SecurityGroup is None and current has
\* no <field>_id attribute, so the id lookup is not taken (AttributeError).
Diff(cur, des) ==
    [f \in {g \in SgFields : cur[g] # des[g]} |-> <<cur[f], des[f]>>]

\* _compare_rule
CompareRule(old, new) ==
    LET old_keys == DOMAIN old \ DunderKeys
        new_keys == DOMAIN new \ DunderKeys
    IN /\ old_keys = new_keys
       /\ \A key \in old_keys : old[key] = new[key]

\* The matching loop shared by list_changes and _update_rules, from the j-th
\* desired rule on.  old is old_rules; new is new_rules as indices into D (an
\* element of new_rules is the dict object of D at that index).  A remove of
\* an element the list no longer holds raises ValueError.
RECURSIVE MatchFrom(_, _, _, _, _)
MatchFrom(C, D, j, old, new) ==
    IF j > Len(D) THEN [old |-> old, new |-> new, error |-> FALSE]
    ELSE LET hits == {i \in 1..Len(C) : CompareRule(C[i], D[j])}
         IN IF hits = {} THEN MatchFrom(C, D, j + 1, old, new)
            ELSE LET i == CHOOSE h \in hits : \A g \in hits : h <= g
                     equal == {n \in 1..Len(new) : D[new[n]] = D[j]}
                 IN IF C[i] \notin Range(old) \/ equal = {}
                    THEN [old |-> old, new |-> new, error |-> TRUE]
                    ELSE MatchFrom(C, D, j + 1, RemoveFirst(old, C[i]),
                             RemoveFirst(new,
                                 new[CHOOSE n \in equal :
                                         \A m \in equal : n <= m]))

MatchRules(C, D) == MatchFrom(C, D, 1, C, [i \in 1..Len(D) |-> i])

NoChanges == <<>>

\* List objects are named in a heap: "current.rules" and "resource.rules",
\* which changes["rules"] holds by reference, and the lists "old_rules" and
\* "new_rules" that the handler builds.
\* Faulty variant of ListCopy: the name is bound to the list itself.
ListCopyAlias(heap, src, dst) == [ref |-> src, heap |-> heap]

\* dst = list(src): a new list object with the elements of src.
ListCopy(heap, src, dst) ==
    [ref |-> dst, heap |-> DictSet(heap, dst, heap[src])]

\* SecurityGroupHandler.list_changes.  current and resource are the two
\* resources as the call leaves them: every remove of the matching loop acts
\* on the list objects old_rules and new_rules are bound to.
ListChanges(res, rem) ==
    LET cur == CheckResource(res, rem)
        diff == Diff(cur, res)
    IN IF "rules" \notin DOMAIN diff
       THEN [current |-> cur, resource |-> res, changes |-> diff,
             error |-> FALSE]
       ELSE LET lists == [n \in {"current.rules", "resource.rules"} |->
                            IF n = "current.rules" THEN cur.rules
                            ELSE res.rules]
                o == ListCopy(lists, "current.rules", "old_rules")
                n == ListCopy(o.heap, "resource.rules", "new_rules")
                m == MatchRules(diff["rules"][1], diff["rules"][2])
                left == [i \in 1..Len(m.new) |-> diff["rules"][2][m.new[i]]]
                heap == [x \in DOMAIN n.heap |->
                            IF x = n.ref THEN left
                            ELSE IF x = o.ref THEN m.old
                            ELSE n.heap[x]]
                cur2 == [cur EXCEPT !.rules = heap["current.rules"]]
                res2 == [res EXCEPT !.rules = heap["resource.rules"]]
                diff2 == [diff EXCEPT !["rules"] = <<cur2.rules, res2.rules>>]
            IN IF m.error
               THEN [current |-> cur2, resource |-> res2, changes |-> diff2,
                     error |-> TRUE]
               ELSE IF m.old = <<>> /\ m.new = <<>>
               THEN [current |-> cur2, resource |-> res2,
                     changes |-> DictDel(diff2, "rules"), error |-> FALSE]
               ELSE [current |-> cur2, resource |-> res2, changes |-> diff2,
                     error |-> FALSE]

\* A handler call in progress: the store, the rule dicts of resource.rules
\* (which _update_rules writes in place), the calls issued and "run" or the
\* exception that ended the call.
Running(rem, rules) == [rem |-> rem, rules |-> rules, calls |-> <<>>, out |-> "run"]

Call(op, arg) == [op |-> op, arg |-> arg]

Field(body, k) == IF k \in DOMAIN body THEN body[k] ELSE None

\* Whether neutron holds the rule a create body describes.
SameRule(rule, body) ==
    \A k \in {"ethertype", "protocol", "remote_ip_prefix", "remote_group_id",
             "direction", "port_range_min", "port_range_max"} :
        rule[k] = Field(body, k)

GroupOfId(rem, id) == {n \in DOMAIN rem.groups : rem.groups[n].id = id}

\* neutron's create_security_group_rule: "ok" and the new store, "NotFound"
\* for a group that does not exist, "Conflict" for a rule the group has.
RemoteCreateRule(rem, body) ==
    LET owners == GroupOfId(rem, Field(body, "security_group_id"))
    IN IF owners = {} THEN [out |-> "NotFound", rem |-> rem]
       ELSE LET n == CHOOSE o \in owners : TRUE
                g == rem.groups[n]
            IN IF \E i \in 1..Len(g.rules) : SameRule(g.rules[i], body)
               THEN [out |-> "Conflict", rem |-> rem]
               ELSE [out |-> "ok",
                     rem |-> [groups |-> [rem.groups EXCEPT ![n].rules =
                                 Append(@, RemoteRule(rem.nextId,
                                     Field(body, "ethertype"),
                                     Field(body, "protocol"),
                                     Field(body, "remote_ip_prefix"),
                                     Field(body, "remote_group_id"),
                                     Field(body, "direction"),
                                     Field(body, "port_range_min")))],
                              nextId |-> rem.nextId + 1]]

\* neutron's delete_security_group_rule; a rule that is gone (NotFound) is
\* passed over by the handler.
RECURSIVE WithoutId(_, _)
WithoutId(rules, id) ==
    IF rules = <<>> THEN <<>>
    ELSE IF Head(rules).id = id THEN WithoutId(Tail(rules), id)
    ELSE <<Head(rules)>> \o WithoutId(Tail(rules), id)

RemoteDeleteRule(rem, id) ==
    [rem EXCEPT !.groups = [n \in DOMAIN rem.groups |->
                               [rem.groups[n] EXCEPT !.rules = WithoutId(@, id)]]]

\* The number of create_security_group_rule calls in a call log.
RECURSIVE CreateCalls(_)
CreateCalls(log) ==
    IF log = <<>> THEN 0
    ELSE (IF Head(log).op = "create_security_group_rule" THEN 1 ELSE 0)
         + CreateCalls(Tail(log))

\* The body of the loop over new_rules of _update_rules up to the create
\* call: the rule dict as written in place, and whether the rule is skipped
\* (its remote group is not found) or the loop ends in KeyError.
PrepareRule(rem, rule, group_id) ==
    LET r1 == DictSet(rule, "ethertype", "IPv4")
    IN IF "remote_group" \in DOMAIN r1 /\ r1["remote_group"] = None
       THEN [skip |-> FALSE, error |-> TRUE, rule |-> r1]
       ELSE IF "remote_group" \in DOMAIN r1 /\ ~HasGroup(rem, r1["remote_group"])
       THEN [skip |-> TRUE, error |-> FALSE, rule |-> r1]
       ELSE LET r2 == IF "remote_group" \in DOMAIN r1
                      THEN DictSet(DictDel(r1, "remote_group"),
                                   "remote_group_id",
                                   GroupId(r1["remote_group"]))
                      ELSE r1
                r3 == DictSet(r2, "security_group_id", group_id)
            IN [skip |-> FALSE, error |-> FALSE,
                rule |-> IF r3["protocol"] = "all"
                         THEN DictSet(r3, "protocol", None) ELSE r3]

\* for new_rule in new_rules: ... create_security_group_rule.  new holds the
\* indices of the rules to create; refuse is the number of the create call
\* neutron refuses for a reason of its own (0: none).
RECURSIVE CreateRules(_, _, _, _)
CreateRules(m, new, group_id, refuse) ==
    IF new = <<>> \/ m.out # "run" THEN m
    ELSE LET idx == Head(new)
             p == PrepareRule(m.rem, m.rules[idx], group_id)
             written == [m EXCEPT !.rules[idx] = p.rule]
         IN IF p.error THEN [written EXCEPT !.out = "KeyError"]
            ELSE IF p.skip
            THEN CreateRules(written, Tail(new), group_id, refuse)
            ELSE LET called == [written EXCEPT !.calls =
                                   Append(@, Call("create_security_group_rule",
                                                  p.rule))]
                     res == RemoteCreateRule(m.rem, p.rule)
                 IN IF CreateCalls(called.calls) = refuse
                    THEN [called EXCEPT !.out = "Conflict"]
                    ELSE IF res.out # "ok"
                    THEN [called EXCEPT !.out = res.out]
                    ELSE CreateRules([called EXCEPT !.rem = res.rem],
                                     Tail(new), group_id, refuse)

\* for old_rule in old_rules: delete_security_group_rule(old_rule["__id"])
RECURSIVE DeleteRules(_, _)
DeleteRules(m, old) ==
    IF old = <<>> \/ m.out # "run" THEN m
    ELSE DeleteRules(
             [m EXCEPT !.calls = Append(@, Call("delete_security_group_rule",
                                               [rule_id |-> Head(old)["__id"]])),
                       !.rem = RemoteDeleteRule(@, Head(old)["__id"])],
             Tail(old))

\* Faulty variant of UpdateRules: the unused rules are removed first.
UpdateRulesDeleteFirst(m, group_id, chg, refuse) ==
    LET match == MatchRules(chg["rules"][1], chg["rules"][2])
    IN IF match.error THEN [m EXCEPT !.out = "ValueError"]
       ELSE CreateRules(DeleteRules(m, match.old), match.new, group_id, refuse)

\* SecurityGroupHandler._update_rules
UpdateRules(m, group_id, chg, refuse) ==
    LET match == MatchRules(chg["rules"][1], chg["rules"][2])
    IN IF match.error THEN [m EXCEPT !.out = "ValueError"]
       ELSE DeleteRules(CreateRules(m, match.new, group_id, refuse), match.old)

\* The first statement of do_changes: the existence transition, or else the
\* update of the group.  sg_id is the id handed to _update_rules.
Existence(m, res, chg) ==
    LET sg == GetSecurityGroup(m.rem, res.name)
    IN IF "purged" \in DOMAIN chg
       THEN IF chg["purged"][1] = TRUE
            THEN [m |-> [m EXCEPT
                     !.calls = Append(@, Call("create_security_group",
                                 [name |-> res.name,
                                  description |-> res.description])),
                     !.rem.groups = DictSet(@, res.name,
                                 [id |-> GroupId(res.name),
                                  description |-> res.description,
                                  rules |-> <<>>])],
                  sg_id |-> GroupId(res.name)]
            ELSE IF sg # NoGroup
            THEN [m |-> [m EXCEPT
                     !.calls = Append(@, Call("delete_security_group",
                                              [group_id |-> sg.id])),
                     !.rem.groups = DictDel(@, res.name)],
                  sg_id |-> sg.id]
            ELSE [m |-> m, sg_id |-> None]
       ELSE IF chg # NoChanges
       THEN IF sg = NoGroup
            THEN [m |-> [m EXCEPT !.out = "Exception"], sg_id |-> None]
            ELSE [m |-> [m EXCEPT
                     !.calls = Append(@, Call("update_security_group",
                                 [group_id |-> sg.id, name |-> res.name,
                                  description |-> res.description])),
                     !.rem.groups[res.name].description = res.description],
                  sg_id |-> sg.id]
       ELSE [m |-> m, sg_id |-> None]

\* Faulty variant: the update branch as an if of its own, not an elif of the purged
\* branch.
DoChangesUpdateAlways(res, chg, rem, refuse) ==
    LET e0 == Existence(Running(rem, res.rules), res, chg)
        e == IF "purged" \in DOMAIN chg
             THEN [m |-> Existence(e0.m, res, DictDel(chg, "purged")).m,
                   sg_id |-> e0.sg_id]
             ELSE e0
        u == IF e.m.out = "run" /\ "rules" \in DOMAIN chg
             THEN UpdateRules(e.m, e.sg_id, chg, refuse)
             ELSE e.m
    IN IF u.out # "run" THEN u
       ELSE IF "purged" \in DOMAIN chg THEN [u EXCEPT !.out = "ok"]
       ELSE [u EXCEPT !.out = "UnboundLocalError"]

\* SecurityGroupHandler.do_changes.  changed is assigned in the purged branch
\* only, so return changed raises UnboundLocalError on every other path.
DoChanges(res, chg, rem, refuse) ==
    LET e == Existence(Running(rem, res.rules), res, chg)
        u == IF e.m.out = "run" /\ "rules" \in DOMAIN chg
             THEN UpdateRules(e.m, e.sg_id, chg, refuse)
             ELSE e.m
    IN IF u.out # "run" THEN u
       ELSE IF "purged" \in DOMAIN chg THEN [u EXCEPT !.out = "ok"]
       ELSE [u EXCEPT !.out = "UnboundLocalError"]

\* Rule lists as neutron holds them: the rules numbered from 1.
Numbered(seq) == [i \in 1..Len(seq) |-> [seq[i] EXCEPT !.id = i]]

PeerGroup == [id |-> GroupId(PeerName), description |-> "peer", rules |-> <<>>]

\* The stores a first pass may find: the peer group present or not, the
\* managed group absent or present with a description and up to MaxRules
\* distinct rules; a rule refers to the peer group only when it exists.
InitialRemotes ==
    LET peers == {<<>>, [n \in {PeerName} |-> PeerGroup]}
        lists == {l \in SeqsUpTo(RemoteChoices, MaxRules) : Injective(l)}
    IN {[groups |-> g, nextId |-> 1] : g \in peers}
       \cup {[groups |-> DictSet(g, SgName,
                           [id |-> GroupId(SgName), description |-> d,
                            rules |-> Numbered(l)]),
              nextId |-> Len(l) + 1] :
                g \in {q \in peers : TRUE}, d \in {"d1", "d2"},
                l \in lists}

RemoteOk(rem) ==
    \A n \in DOMAIN rem.groups :
        \A i \in 1..Len(rem.groups[n].rules) :
            rem.groups[n].rules[i].remote_group_id # None
            => GroupOfId(rem, rem.groups[n].rules[i].remote_group_id) # {}

\* The calls of create_security_group_rule that neutron may refuse.
RefuseChoices == 0..MaxRules

InitSG ==
    /\ declared \in [name : {SgName}, description : {"d1"},
                     manage_all : {FALSE},
                     rules : SeqsUpTo(RuleChoices, MaxRules),
                     purged : BOOLEAN]
    /\ desired = declared
    /\ remote \in {r \in InitialRemotes : RemoteOk(r)}
    /\ current = None
    /\ changes = NoChanges
    /\ calls = <<>>
    /\ outcome = "none"
    /\ pc = "start"
    /\ passNo = 1
    /\ prevDone = FALSE
    /\ batch = {} /\ requires = <<>> /\ todo = {} /\ err = NoError
    /\ connections = Idle /\ handlers = Idle
    /\ hcall = Idle /\ hresult = Idle

\* The handler's read and diff of one pass: list_changes.
SgListChanges ==
    /\ pc = "start"
    /\ LET r == ListChanges(desired, remote)
       IN /\ current' = r.current
          /\ desired' = r.resource
          /\ changes' = r.changes
          /\ pc' = IF r.error THEN "end" ELSE "diffed"
          /\ outcome' = IF r.error THEN "ValueError" ELSE outcome
    /\ UNCHANGED <<declared, remote, calls, passNo, prevDone,
                   depVars, hVars>>

\* A pass applies a changeset that is not empty.
Applies(chg) == chg # NoChanges

\* The handler's apply of one pass: do_changes with the changeset of
\* list_changes.  The rule dicts of the changeset are those of
\* resource.rules, so what _update_rules writes shows in both.
SgDoChanges ==
    /\ pc = "diffed"
    /\ Applies(changes)
    /\ \E refuse \in RefuseChoices :
          LET r == DoChanges(desired, changes, remote, refuse)
          IN /\ remote' = r.rem
             /\ desired' = [desired EXCEPT !.rules = r.rules]
             /\ changes' = IF "rules" \in DOMAIN changes
                           THEN [changes EXCEPT !["rules"] = <<@[1], r.rules>>]
                           ELSE changes
             /\ calls' = r.calls
             /\ outcome' = r.out
    /\ pc' = "end"
    /\ UNCHANGED <<declared, current, passNo, prevDone, depVars, hVars>>

\* The next pass over the resource: the resource is exported anew.
SgNextPass ==
    /\ \/ pc = "end"
       \/ pc = "diffed" /\ ~Applies(changes)
    /\ passNo < MaxPass
    /\ passNo' = passNo + 1
    /\ prevDone' = (pc = "diffed" \/ outcome = "ok")
    /\ desired' = declared
    /\ current' = None
    /\ changes' = NoChanges
    /\ calls' = <<>>
    /\ outcome' = "none"
    /\ pc' = "start"
    /\ UNCHANGED <<declared, remote, depVars, hVars>>

NextSG ==
    \/ SgListChanges
    \/ SgDoChanges
    \/ SgNextPass

SpecSG == InitSG /\ [][NextSG]_vars

\* Passes go on after the last one counted: passNo stays at MaxPass.
SgRepeatPass ==
    /\ \/ pc = "end"
       \/ pc = "diffed" /\ ~Applies(changes)
    /\ passNo = MaxPass
    /\ prevDone' = (pc = "diffed" \/ outcome = "ok")
    /\ desired' = declared
    /\ current' = None
    /\ changes' = NoChanges
    /\ calls' = <<>>
    /\ outcome' = "none"
    /\ pc' = "start"
    /\ UNCHANGED <<declared, remote, passNo, depVars, hVars>>

\* What a step of a pass does to pc and passNo, and when one can be made.
SgAdvance ==
    \/ pc = "start" /\ pc' \in {"diffed", "end"} /\ passNo' = passNo
    \/ pc = "diffed" /\ Applies(changes) /\ pc' = "end" /\ passNo' = passNo
    \/ /\ pc = "end" \/ (pc = "diffed" /\ ~Applies(changes))
       /\ pc' = "start"
       /\ passNo' = IF passNo < MaxPass THEN passNo + 1 ELSE passNo

NextSGLive ==
    \/ NextSG
    \/ SgRepeatPass

\* The passes without end under the agent's scheduling: a step that can be
\* made is not put off for ever.
SpecSGLive ==
    InitSG /\ [][NextSGLive]_vars /\ WF_<<pc, passNo>>(SgAdvance)

-----------------------------------------------------------------------------
(* Part III: connection handles                                            *)
(*                                                                         *)
(* NeutronHandler.pre and VMHandler.pre, statement by statement, for       *)
(* handler instances that may run at the same time.  Each class keeps its  *)
(* handles in a class dict __connections keyed by the credential tuple.    *)

\* Bounds: the handler instances and the pre calls of one instance.
MaxHandlers == 2
MaxPre == 2

HandlerClasses == {"NeutronHandler", "VMHandler"}

\* The credential tuples (auth_url, user, password, tenant) in use.
CredentialKeys == {"k1", "k2"}

\* The names the module binds at import that pre refers to.
ImportedNames == {"v3", "session", "neutron_client", "nova_client",
                  "keystone_client"}

\* Evaluating a global name: bound, or NameError.
Bound(name) == name \in ImportedNames

NoHandle == None

\* A handler instance: __init__ sets self._client = None.
NewHandler(cls, key) ==
    [cls |-> cls, key |-> key, pc |-> "idle", client |-> NoHandle,
     out |-> "none", pres |-> 0, built |-> {}]

InitPre ==
    /\ connections = [c \in HandlerClasses |-> <<>>]
    /\ \E n \in 1..MaxHandlers :
          handlers \in [1..n -> {NewHandler(c, k) :
                                    c \in HandlerClasses, k \in CredentialKeys}]
    /\ hcall = Idle /\ hresult = Idle
    /\ batch = {} /\ requires = <<>> /\ todo = {} /\ err = NoError
    /\ declared = Idle /\ desired = Idle /\ remote = Idle /\ current = Idle
    /\ changes = Idle /\ calls = Idle /\ outcome = Idle /\ pc = Idle
    /\ passNo = 0 /\ prevDone = FALSE

\* pre, up to the test "if key in __connections": on a hit the handler takes
\* the stored handle and pre returns.
PreLookup(h) ==
    /\ handlers[h].pc = "idle"
    /\ handlers[h].pres < MaxPre
    /\ LET me == handlers[h]
           dict == connections[me.cls]
       IN handlers' = [handlers EXCEPT ![h] =
              IF me.key \in DOMAIN dict
              THEN [me EXCEPT !.pc = "done", !.client = dict[me.key],
                              !.out = "ok", !.pres = @ + 1]
              ELSE [me EXCEPT !.pc = "miss", !.pres = @ + 1]]
    /\ UNCHANGED <<connections, hcall, hresult, depVars, sgVars>>

\* pre, the else branch: auth = v2.Password(...), the session and client
\* built from it, and the store into __connections.
PreConstruct(h) ==
    /\ handlers[h].pc = "miss"
    /\ LET me == handlers[h]
           handle == <<"handle", h, me.pres>>
       IN IF ~Bound("v2")
          THEN /\ handlers' = [handlers EXCEPT ![h] =
                      [me EXCEPT !.pc = "done", !.out = "NameError"]]
               /\ UNCHANGED connections
          ELSE /\ handlers' = [handlers EXCEPT ![h] =
                      [me EXCEPT !.pc = "done", !.out = "ok",
                                 !.client = handle,
                                 !.built = @ \cup {handle}]]
               /\ connections' = [connections EXCEPT ![me.cls] =
                                     DictSet(@, me.key, handle)]
    /\ UNCHANGED <<hcall, hresult, depVars, sgVars>>

\* post: self._client = None; the instance is ready for its next pre.
Post(h) ==
    /\ handlers[h].pc = "done"
    /\ handlers' = [handlers EXCEPT ![h] =
           [@ EXCEPT !.pc = "idle", !.client = NoHandle, !.out = "none"]]
    /\ UNCHANGED <<connections, hcall, hresult, depVars, sgVars>>

NextPre ==
    \/ \E h \in DOMAIN handlers : PreLookup(h)
    \/ \E h \in DOMAIN handlers : PreConstruct(h)
    \/ \E h \in DOMAIN handlers : Post(h)

SpecPre == InitPre /\ [][NextPre]_vars

-----------------------------------------------------------------------------
(* Part IV: single handler calls                                           *)
(*                                                                         *)
(* One call of a handler function against a cloud that is described by     *)
(* what the adapter's lookups answer: the project id that get_project_id   *)
(* finds, the number of remote objects that carry a looked-up name, and    *)
(* the exception a list call raises.  A changeset maps a field to the pair *)
(* <<current, desired>> (changes[f][0] and changes[f][1] in the code).     *)

\* Bound: the most remote objects that carry one name.
MaxMatches == 2

Fns == {"VMHandler.do_changes", "SubnetHandler.do_changes",
        "RouterHandler.do_changes", "RouterPortHandler.do_changes",
        "NetworkHandler.read_resource", "VMHandler.facts",
        "NetworkHandler.facts", "RouterHandler.facts"}

DoChangesFns == {"VMHandler.do_changes", "SubnetHandler.do_changes",
                 "RouterHandler.do_changes", "RouterPortHandler.do_changes"}

\* The field besides purged that a changeset of each kind may hold.
OtherField(fn) ==
    CASE fn = "VMHandler.do_changes" -> "security_groups"
      [] fn = "SubnetHandler.do_changes" -> "dhcp"
      [] fn = "RouterHandler.do_changes" -> "name"
      [] OTHER -> "address"

OtherChange(fn) ==
    IF fn = "VMHandler.do_changes" THEN <<{"sga"}, {"sgb"}>>
    ELSE <<"old", "new">>

\* The changesets a call may be given: empty, a create, a purge, an edit,
\* a create together with an edit; for a Router also a change of its
\* subnets (lists of names) and of its routes (destination to nexthop).
ChangeChoices(fn) ==
    LET create == [f \in {"purged"} |-> <<TRUE, FALSE>>]
        purge == [f \in {"purged"} |-> <<FALSE, TRUE>>]
        edit == [f \in {OtherField(fn)} |-> OtherChange(fn)]
        subnets == [f \in {"subnets"} |-> <<{"sa", "sb"}, {"sb", "sc"}>>]
        routes == [f \in {"routes"} |->
                      <<{<<"10.1.0.0/16", "gw1">>},
                        {<<"10.1.0.0/16", "gw1">>, <<"10.2.0.0/16", "gw2">>}>>]
    IN {NoChanges, create, purge, edit,
        DictSet(edit, "purged", <<TRUE, FALSE>>)}
       \cup IF fn = "RouterHandler.do_changes" THEN {subnets, routes}
            ELSE {}

\* What the adapter's list call raises.
Failures == {"none", "NotFound", "Error"}

\* The calls modelled.  project is what get_project_id returns; networks,
\* subnets and routers count the remote objects carrying the name the
\* resource refers to, matches those carrying the resource's own name;
\* keypair tells whether nova lists resource.key_name.
HandlerCalls ==
    LET all == [fn : Fns, changes : UNION {ChangeChoices(f) : f \in Fns},
                project : {None, "pid"}, networks : 0..MaxMatches,
                subnets : 0..MaxMatches, routers : 0..MaxMatches,
                matches : 0..MaxMatches, keypair : BOOLEAN,
                fails : Failures]
        pinned(c, fields) ==
            /\ "project" \notin fields => c.project = "pid"
            /\ "networks" \notin fields => c.networks = 1
            /\ "subnets" \notin fields => c.subnets = 1
            /\ "routers" \notin fields => c.routers = 1
            /\ "matches" \notin fields => c.matches = 1
            /\ "keypair" \notin fields => c.keypair
            /\ "fails" \notin fields => c.fails = "none"
            /\ IF c.fn \in DoChangesFns
               THEN c.changes \in ChangeChoices(c.fn)
               ELSE c.changes = NoChanges
        reads(fn) ==
            CASE fn = "VMHandler.do_changes" -> {"keypair", "matches"}
              [] fn = "SubnetHandler.do_changes" -> {"project", "networks"}
              [] fn = "RouterHandler.do_changes" -> {"project", "subnets"}
              [] fn = "RouterPortHandler.do_changes" ->
                     {"project", "networks", "subnets", "routers"}
              [] OTHER -> {"matches", "fails"}
    IN {c \in all : pinned(c, reads(c.fn))}

Pending == [calls |-> <<>>, out |-> "pending"]

\* A call's end: the adapter calls it made and its return value or the
\* exception it raised.
Ended(made, out) == [calls |-> made, out |-> out]

\* get_network_id, get_subnet_id, get_router_id: None, the id, or the
\* exception for more than one object of the name.
IdOf(count) ==
    IF count = 0 THEN None ELSE IF count > 1 THEN "Exception" ELSE "id"

\* self.facts(resource): facts takes (ctx, resource), so the call binds the
\* resource to ctx and lacks resource.
FactsWithoutCtx == "TypeError"

InitCall ==
    /\ hcall \in HandlerCalls
    /\ hresult = Pending
    /\ connections = Idle /\ handlers = Idle
    /\ batch = {} /\ requires = <<>> /\ todo = {} /\ err = NoError
    /\ declared = Idle /\ desired = Idle /\ remote = Idle /\ current = Idle
    /\ changes = Idle /\ calls = Idle /\ outcome = Idle /\ pc = Idle
    /\ passNo = 0 /\ prevDone = FALSE

\* An action of this part: the call of fn, ending as result tells.
Runs(fn, result) ==
    /\ hcall.fn = fn
    /\ hresult = Pending
    /\ hresult' = result
    /\ UNCHANGED <<hcall, connections, handlers, depVars, sgVars>>

\* self._client.servers.find(name=...): the server, or novaclient's
\* NotFound or NoUniqueMatch.
ServersFind(c) ==
    IF c.matches = 1 THEN "server"
    ELSE IF c.matches = 0 THEN "NotFound" ELSE "NoUniqueMatch"

\* VMHandler.do_changes.  The flavor and the nics of a create are taken to
\* resolve.
VMDoChanges(c) ==
    LET chg == c.changes
        keys == IF c.keypair THEN <<>> ELSE <<"keypairs.create">>
        server == ServersFind(c)
    IN IF "purged" \in DOMAIN chg
       THEN IF chg["purged"][1]
            THEN Ended(keys \o <<"servers.create">>, "True")
            ELSE IF chg["purged"][2]
            THEN IF server = "server"
                 THEN Ended(keys \o <<"server.delete">>, "True")
                 ELSE Ended(keys, server)
            ELSE Ended(keys, "True")
       ELSE IF "security_groups" \in DOMAIN chg
       THEN LET cur == chg["security_groups"][1]
                des == chg["security_groups"][2]
                adds == [i \in 1..Cardinality(des \ cur) |->
                            "servers.add_security_group"]
                removes == [i \in 1..Cardinality(cur \ des) |->
                               "servers.remove_security_group"]
            IN IF server = "server"
               THEN Ended(keys \o adds \o removes, "True")
               ELSE Ended(keys, server)
       ELSE Ended(keys, "True")

\* SubnetHandler.do_changes
SubnetDoChanges(c) ==
    LET chg == c.changes
        network_id == IdOf(c.networks)
    IN IF c.project = None THEN Ended(<<>>, "SkipResource")
       ELSE IF network_id = "Exception" THEN Ended(<<>>, "Exception")
       ELSE IF network_id = None THEN Ended(<<>>, "Exception")
       ELSE IF "purged" \in DOMAIN chg
       THEN IF ~chg["purged"][2]
            THEN Ended(<<"create_subnet">>, "True")
            ELSE IF chg["purged"][2] /\ ~chg["purged"][1]
            THEN Ended(<<"delete_subnet">>, "True")
            ELSE Ended(<<>>, "False")
       ELSE IF chg # NoChanges
       THEN IF FactsWithoutCtx = "TypeError"
            THEN Ended(<<>>, "TypeError")
            ELSE Ended(<<"update_subnet">>, "True")
       ELSE Ended(<<>>, "False")

\* RouterHandler.do_changes.  Every statement after the early return of a
\* delete follows router_facts = self.facts(resource).  A gateway change is
\* not among the changesets given.
RouterDoChanges(c) ==
    LET chg == c.changes
        create == "purged" \in DOMAIN chg /\ ~chg["purged"][2]
        delete == /\ "purged" \in DOMAIN chg
                  /\ chg["purged"][2] /\ ~chg["purged"][1]
        rename == "purged" \notin DOMAIN chg /\ "name" \in DOMAIN chg
        made == IF create THEN <<"create_router">>
                ELSE IF delete THEN <<"delete_router">>
                ELSE IF rename THEN <<"update_router">>
                ELSE <<>>
        changed == IF made = <<>> THEN "False" ELSE "True"
        cur == IF "subnets" \in DOMAIN chg THEN chg["subnets"][1] ELSE {}
        to == IF "subnets" \in DOMAIN chg THEN chg["subnets"][2] ELSE {}
        adds == [i \in 1..Cardinality(to \ cur) |->
                    "add_interface_router"]
        removes == [i \in 1..Cardinality(cur \ to) |->
                       "remove_interface_router"]
        routes == IF "routes" \in DOMAIN chg
                  THEN <<"update_router(routes)">> ELSE <<>>
    IN IF c.project = None THEN Ended(<<>>, "SkipResource")
       ELSE IF delete THEN Ended(made, changed)
       ELSE IF FactsWithoutCtx = "TypeError" THEN Ended(made, "TypeError")
       ELSE IF to # cur /\ c.subnets # 1 THEN Ended(made, "Exception")
       ELSE Ended(made \o adds \o removes \o routes, changed)

\* RouterPortHandler.do_changes; create_port is taken to return the port.
RouterPortDoChanges(c) ==
    LET chg == c.changes
        subnet_id == IdOf(c.subnets)
        network_id == IdOf(c.networks)
        router_id == IdOf(c.routers)
    IN IF c.project = None THEN Ended(<<>>, "SkipResource")
       ELSE IF subnet_id = "Exception" THEN Ended(<<>>, "Exception")
       ELSE IF subnet_id = None THEN Ended(<<>>, "SkipResource")
       ELSE IF network_id = "Exception" THEN Ended(<<>>, "Exception")
       ELSE IF network_id = None THEN Ended(<<>>, "SkipResource")
       ELSE IF router_id = "Exception" THEN Ended(<<>>, "Exception")
       ELSE IF router_id = None THEN Ended(<<>>, "SkipResource")
       ELSE IF "purged" \in DOMAIN chg
       THEN IF ~chg["purged"][2]
            THEN Ended(<<"create_port", "add_interface_router">>, "True")
            ELSE IF chg["purged"][2] /\ ~chg["purged"][1]
            THEN Ended(<<>>, "True")
            ELSE Ended(<<>>, "False")
       ELSE IF chg # NoChanges THEN Ended(<<>>, "True")
       ELSE Ended(<<>>, "False")

\* What a facts function returns: the empty mapping or the facts found.
NoFacts == "{}"
SomeFacts == "facts"

\* NetworkHandler.facts: only NotFound is caught.
NetworkFacts(c) ==
    IF c.fails = "NotFound" THEN NoFacts
    ELSE IF c.fails # "none" THEN c.fails
    ELSE IF c.matches = 0 THEN NoFacts
    ELSE IF c.matches > 1 THEN NoFacts
    ELSE SomeFacts

\* NetworkHandler.read_resource
NetworkReadResource(c) ==
    LET network == NetworkFacts(c)
    IN IF network \notin {NoFacts, SomeFacts} THEN Ended(<<>>, network)
       ELSE IF network = SomeFacts THEN Ended(<<>>, "ok")
       ELSE Ended(<<>>, "ResourcePurged")

\* VMHandler.facts: the whole body is in try ... except Exception.
VMFacts(c) ==
    IF c.fails # "none" THEN NoFacts
    ELSE IF ServersFind(c) # "server" THEN NoFacts
    ELSE SomeFacts

\* RouterHandler.facts: no try around list_routers.
RouterFacts(c) ==
    IF c.fails # "none" THEN c.fails
    ELSE IF c.matches = 0 THEN NoFacts
    ELSE IF c.matches > 1 THEN NoFacts
    ELSE SomeFacts

CallVMDoChanges == Runs("VMHandler.do_changes", VMDoChanges(hcall))
CallSubnetDoChanges == Runs("SubnetHandler.do_changes", SubnetDoChanges(hcall))
CallRouterDoChanges == Runs("RouterHandler.do_changes", RouterDoChanges(hcall))
CallRouterPortDoChanges ==
    Runs("RouterPortHandler.do_changes", RouterPortDoChanges(hcall))
CallNetworkReadResource ==
    Runs("NetworkHandler.read_resource", NetworkReadResource(hcall))
CallVMFacts == Runs("VMHandler.facts", Ended(<<>>, VMFacts(hcall)))
CallNetworkFacts == Runs("NetworkHandler.facts", Ended(<<>>, NetworkFacts(hcall)))
CallRouterFacts == Runs("RouterHandler.facts", Ended(<<>>, RouterFacts(hcall)))

NextCall ==
    \/ CallVMDoChanges
    \/ CallSubnetDoChanges
    \/ CallRouterDoChanges
    \/ CallRouterPortDoChanges
    \/ CallNetworkReadResource
    \/ CallVMFacts
    \/ CallNetworkFacts
    \/ CallRouterFacts

SpecCall == InitCall /\ [][NextCall]_vars

-----------------------------------------------------------------------------
(* Part V: reads and diffs of other kinds                                  *)
(*                                                                         *)
(* One read of a resource and the diff that follows it: check_resource and *)
(* _diff for the handlers that derive from NeutronHandler, read_resource   *)
(* and the dispatch to create, delete or update for those that derive from *)
(* OpenStackHandler.  A resource is a function from attribute names to     *)
(* values; every value is a string here, True and False included, so that  *)
(* a value can be tested for None.                                         *)

\* The fields for which a NeutronHandler has a method get_<field>_id.
Converters == {"network", "subnet", "router", "host"}

\* Faulty variant of NeutronDiff: the pair is (desired, current).
NeutronDiffSwapped(cur, des, fields, ids) ==
    [f \in {g \in fields : cur[g] # des[g]} |-> <<des[f], cur[f]>>]

\* NeutronHandler._diff over fields: the fields of the resource that
\* check_resource may write or that name another resource, and purged.
\* ids[f] is what get_<f>_id answers for the desired
\* name; the lookup is made only when the desired value is set, the current
\* one is None and current has the attribute <f>_id.
NeutronDiff(cur, des, fields, ids) ==
    LET byId(f) == /\ des[f] # None /\ cur[f] = None
                   /\ (f \o "_id") \in DOMAIN cur
                   /\ f \in Converters
        current_value(f) == IF byId(f) THEN cur[f \o "_id"] ELSE cur[f]
        desired_value(f) == IF byId(f) THEN ids[f] ELSE des[f]
    IN [f \in {g \in fields : current_value(g) # desired_value(g)} |->
           <<current_value(f), desired_value(f)>>]

\* The reads modelled, each with the declared resource and what the cloud
\* answers.  For a HostPort: project and networks as in Part IV, hosts
\* counts the servers of the host's name, found holds the ports neutron
\* lists for the host on the network.  For a Subnet: found holds the subnet
\* of the name, resolved is the id get_network_id finds for the declared
\* network name.  For a Role: whether the finds succeed (the user "bartvb"
\* of line 1783 included) and whether the role is granted.  For an
\* EndPoint: whether the service is listed, the interfaces that have an
\* endpoint and what endpoints.list raises.
ReadCalls ==
    LET bools == {"True", "False"}
        ports == [name : {"hp1", ""}, ip_address : {"10.0.0.5", "10.0.0.9"},
                  port_security_enabled : bools]
        subnets == [id : {"sid"}, cidr : {"10.0.0.0/24"},
                    enable_dhcp : bools, network_id : {"idA", "idB"}]
    IN [fn : {"HostPortHandler.list_changes"},
        desired : [name : {"hp1"}, address : {"", "10.0.0.5"},
                   subnet : {"s1"}, host : {"h1"}, network : {"n1"},
                   portsecurity : bools, dhcp : bools, purged : bools],
        project : {None, "pid"}, networks : 0..MaxMatches,
        hosts : 0..MaxMatches, found : {<<>>} \cup {<<p>> : p \in ports}]
       \cup
       [fn : {"SubnetHandler.list_changes"},
        desired : [name : {"s1"}, network_address : {"10.0.0.0/24"},
                   dhcp : bools, allocation_start : {""},
                   allocation_end : {""}, network : {"n1"}, purged : bools],
        found : {<<>>} \cup {<<n>> : n \in subnets},
        resolved : {"idA", "idB"}]
       \cup
       [fn : {"RoleHandler.execute"},
        desired : [role_id : {"r1"}, role : {"admin"}, project : {"p1"},
                   user : {"u1"}, purged : bools],
        bartvb : BOOLEAN, role : BOOLEAN, user : BOOLEAN,
        project : BOOLEAN, granted : BOOLEAN]
       \cup
       [fn : {"EndpointHandler.execute"},
        desired : [service_id : {"compute_nova"}, region : {"RegionOne"},
                   internal_url : {"http://i"}, public_url : {"http://p"},
                   admin_url : {"http://a"}, purged : bools],
        service : BOOLEAN, listed : SUBSET {"admin", "internal", "public"},
        fails : Failures]

\* The end of a read: the observed resource and the changeset, or the
\* exception raised.
Read(cur, chg) == [out |-> "ok", current |-> cur, changes |-> chg]
Raised(exc) == [out |-> exc, current |-> <<>>, changes |-> NoChanges]

\* HostPortHandler.check_resource
HostPortCheckResource(c) ==
    LET resource == c.desired
        network_id == IdOf(c.networks)
        vm == IdOf(c.hosts)
        port == IF vm # None /\ c.found # <<>> THEN c.found ELSE <<>>
    IN IF network_id = "Exception" \/ vm = "Exception" THEN <<"Exception">>
       ELSE IF port # <<>>
       THEN <<"ok",
              [a \in DOMAIN resource |->
                 CASE a = "address" /\ resource.dhcp # "True" ->
                          port[1].ip_address
                   [] a = "portsecurity" -> port[1].port_security_enabled
                   [] a = "name" -> port[1].name
                   [] OTHER -> resource[a]]>>
       ELSE <<"ok",
              [a \in DOMAIN resource \cup {"id"} |->
                 CASE a = "id" -> "0"
                   [] a = "purged" -> "True"
                   [] a = "address" -> ""
                   [] OTHER -> resource[a]]>>

\* SubnetHandler.check_resource: the read is self.facts(resource).
SubnetCheckResource(c) ==
    LET resource == c.desired
    IN IF FactsWithoutCtx = "TypeError" THEN <<"TypeError">>
       ELSE IF c.found # <<>>
       THEN <<"ok",
              [a \in DOMAIN resource \cup {"id", "network_id"} |->
                 CASE a = "id" -> c.found[1].id
                   [] a = "network_address" -> c.found[1].cidr
                   [] a = "dhcp" -> c.found[1].enable_dhcp
                   [] a = "network_id" -> c.found[1].network_id
                   [] OTHER -> resource[a]]>>
       ELSE <<"ok",
              [a \in DOMAIN resource \cup {"id", "network_id"} |->
                 CASE a = "id" -> "0"
                   [] a = "purged" -> "True"
                   [] a = "network_address" -> ""
                   [] a = "network_id" -> "NULL_UUID"
                   [] a \in {"allocation_start", "allocation_end"} -> ""
                   [] OTHER -> resource[a]]>>

\* list_changes of a handler that does not override it: check_resource,
\* then _diff of what it returns with the resource.
ListChangesOf(checked, des, fields, ids) ==
    IF checked[1] # "ok" THEN Raised(checked[1])
    ELSE Read(checked[2], NeutronDiff(checked[2], des, fields, ids))

CallHostPortListChanges ==
    Runs("HostPortHandler.list_changes",
         ListChangesOf(HostPortCheckResource(hcall), hcall.desired,
                       DOMAIN hcall.desired, [f \in Converters |-> "id"]))

CallSubnetListChanges ==
    Runs("SubnetHandler.list_changes",
         ListChangesOf(SubnetCheckResource(hcall), hcall.desired,
                       DOMAIN hcall.desired,
                       [f \in Converters |-> hcall.resolved]))

\* EndpointHandler.types
EndpointTypes ==
    [k \in {"admin", "internal", "public"} |-> k \o "_url"]

\* Faulty variant of RoleReadResource: the role found is written to the
\* resource as well.
RoleReadResourceWritesRole(c) ==
    <<"ok", [c.desired EXCEPT !.role = "role-id",
                              !.purged = IF c.granted THEN "False"
                                         ELSE "True"]>>

\* RoleHandler.read_resource on the clone of the resource.
RoleReadResource(c) ==
    LET role == IF c.bartvb /\ c.role THEN "role" ELSE None
        checked == role # None /\ c.granted
    IN IF ~c.user \/ ~c.project THEN <<"SkipResource">>
       ELSE <<"ok", [c.desired EXCEPT !.purged = IF checked THEN "False"
                                                ELSE "True"]>>

\* EndpointHandler.read_resource on the clone of the resource: a url
\* attribute becomes the endpoint object of its interface, or None.
EndpointReadResource(c) ==
    LET resource == c.desired
    IN IF ~c.service THEN <<"SkipResource">>
       ELSE IF c.fails = "NotFound"
       THEN <<"ok", [a \in DOMAIN resource |->
                        CASE a = "purged" -> "True"
                          [] a = "service_id" -> resource[a]
                          [] OTHER -> None]>>
       ELSE IF c.fails # "none" THEN <<c.fails>>
       ELSE <<"ok", [a \in DOMAIN resource |->
                        IF \E k \in DOMAIN EndpointTypes : EndpointTypes[k] = a
                        THEN LET k == CHOOSE t \in DOMAIN EndpointTypes :
                                          EndpointTypes[t] = a
                             IN IF k \in c.listed THEN "Endpoint " \o k
                                ELSE None
                        ELSE IF a = "purged" THEN "False"
                        ELSE resource[a]]>>

\* The operation that follows a read: create_resource or delete_resource
\* when purged is in the changeset, update_resource when the resource is to
\* exist and another field is, none otherwise.
CrudExecute(read, des) ==
    IF read[1] # "ok" THEN [out |-> read[1], current |-> <<>>,
                            changes |-> NoChanges, op |-> "none"]
    ELSE LET cur == read[2]
             chg == [f \in {g \in DOMAIN des : cur[g] # des[g]} |->
                        <<cur[f], des[f]>>]
             op == IF "purged" \in DOMAIN chg
                   THEN IF des.purged = "False" THEN "create_resource"
                        ELSE "delete_resource"
                   ELSE IF des.purged = "False" /\ chg # NoChanges
                   THEN "update_resource"
                   ELSE "none"
         IN [out |-> "ok", current |-> cur, changes |-> chg, op |-> op]

\* RoleHandler.update_resource and EndpointHandler.create_resource
AssertFalse == "AssertionError"

\* RoleHandler.create_resource: the calls it makes on keystone.  The role it
\* takes from the context is the one read_resource found, or None.
RoleCreateResource(c) ==
    LET role == IF c.bartvb /\ c.role THEN "role" ELSE None
    IN (IF role = None THEN <<"roles.create">> ELSE <<>>) \o <<"roles.grant">>

CallRoleExecute ==
    LET r == CrudExecute(RoleReadResource(hcall), hcall.desired)
        made == CASE r.op = "create_resource" -> RoleCreateResource(hcall)
                  [] r.op = "delete_resource" -> <<"roles.revoke">>
                  [] OTHER -> <<>>
        done == [out |-> r.out, current |-> r.current, changes |-> r.changes,
                 op |-> r.op, calls |-> made]
    IN Runs("RoleHandler.execute",
            IF r.op = "update_resource" THEN [done EXCEPT !.out = AssertFalse]
            ELSE done)

CallEndpointExecute ==
    LET r == CrudExecute(EndpointReadResource(hcall), hcall.desired)
    IN Runs("EndpointHandler.execute",
            IF r.op = "create_resource" THEN [r EXCEPT !.out = AssertFalse]
            ELSE r)

InitRead ==
    /\ hcall \in ReadCalls
    /\ hresult = Pending
    /\ connections = Idle /\ handlers = Idle
    /\ batch = {} /\ requires = <<>> /\ todo = {} /\ err = NoError
    /\ declared = Idle /\ desired = Idle /\ remote = Idle /\ current = Idle
    /\ changes = Idle /\ calls = Idle /\ outcome = Idle /\ pc = Idle
    /\ passNo = 0 /\ prevDone = FALSE

NextRead ==
    \/ CallHostPortListChanges
    \/ CallSubnetListChanges
    \/ CallRoleExecute
    \/ CallEndpointExecute

SpecRead == InitRead /\ [][NextRead]_vars

-----------------------------------------------------------------------------
(* Part VI: passes of the HostPort handler                                 *)

\* The deployment passes run over the HostPort.
MaxPortPasses == 2

\* HostPortHandler.get_port: the first port neutron lists for the network
\* with the server as device, or none.  device is "vm" once the port is
\* attached to the server and "" before.
GetPort(ports) ==
    LET attached == SelectSeq(ports, LAMBDA p : p.device = "vm")
    IN IF attached = <<>> THEN <<>> ELSE <<Head(attached)>>

\* HostPortHandler.do_changes over the ports neutron holds; conflict tells
\* whether nova answers interface_attach with Conflict.  neutron refuses a
\* port with a fixed address that a port of the network already has, and
\* gives a port without one the next free address.  The result holds the
\* ports afterwards, the calls made and the value returned or the
\* exception raised.
HostPortDoChanges(c, chg, ports, conflict) ==
    LET resource == c.desired
        end(p, made, out) == [ports |-> p, calls |-> made, out |-> out]
        subnet_id == IdOf(c.subnets)
        network_id == IdOf(c.networks)
        vm == IdOf(c.hosts)
        port == GetPort(ports)
        fixed == resource.address # "" /\ resource.dhcp # "True"
        free == <<"10.0.0.21", "10.0.0.22", "10.0.0.23", "10.0.0.24">>
        created == [name |-> resource.name,
                    ip_address |-> IF fixed THEN resource.address
                                   ELSE free[Len(ports) + 1],
                    port_security_enabled |-> "True", device |-> ""]
        in_use == fixed /\ \E i \in 1..Len(ports) :
                               ports[i].ip_address = resource.address
        at == CHOOSE i \in 1..Len(ports) : ports[i].device = "vm"
        secure == "portsecurity" \in DOMAIN chg
                  /\ chg["portsecurity"][2] # "True"
        named == "name" \in DOMAIN chg
        written == [ports EXCEPT
                      ![at] = [@ EXCEPT
                                 !.port_security_enabled =
                                     IF secure THEN "False" ELSE @,
                                 !.name = IF named THEN resource.name ELSE @]]
        updates == (IF secure THEN <<"update_port">> ELSE <<>>)
                   \o (IF named THEN <<"update_port">> ELSE <<>>)
        rest == (DOMAIN chg \ {"portsecurity", "name"})
                \cup (IF "portsecurity" \in DOMAIN chg /\ ~secure
                      THEN {"portsecurity"} ELSE {})
    IN IF c.project = None THEN end(ports, <<>>, "SkipResource")
       ELSE IF subnet_id = "Exception" THEN end(ports, <<>>, "Exception")
       ELSE IF subnet_id = None THEN end(ports, <<>>, "SkipResource")
       ELSE IF network_id = "Exception" THEN end(ports, <<>>, "Exception")
       ELSE IF network_id = None THEN end(ports, <<>>, "SkipResource")
       ELSE IF vm = "Exception" THEN end(ports, <<>>, "Exception")
       ELSE IF vm = None THEN end(ports, <<>>, "SkipResource")
       ELSE IF "purged" \in DOMAIN chg /\ port = <<>>
       THEN IF chg["purged"][2] # "True"
            THEN IF in_use
                 THEN end(ports, <<"create_port">>, "IpAddressInUseClient")
                 ELSE IF conflict
                 THEN end(Append(ports, created),
                          <<"create_port", "interface_attach">>,
                          "SkipResource")
                 ELSE end(Append(ports, [created EXCEPT !.device = "vm"]),
                          <<"create_port", "interface_attach">>, "True")
            ELSE IF chg["purged"][1] # "True"
            THEN end(ports, <<>>, "TypeError")
            ELSE end(ports, <<>>, "False")
       ELSE IF port = <<>> THEN end(ports, <<>>, "SkipResource")
       ELSE IF rest # {} THEN end(written, updates, "SkipResource")
       ELSE end(written, updates, IF secure THEN "True" ELSE "False")

\* One HostPort, declared once and deployed in passes: hcall holds the
\* resource and what the lookups answer, remote the ports neutron holds on
\* the network, hresult the calls and the end of the last pass and the
\* number of ports created so far.
InitPort ==
    /\ hcall \in [fn : {"HostPortHandler.execute"},
                  desired : [name : {"hp1"}, address : {"", "10.0.0.5"},
                             subnet : {"s1"}, host : {"h1"}, network : {"n1"},
                             portsecurity : {"True", "False"},
                             dhcp : {"True", "False"},
                             purged : {"True", "False"}],
                  project : {None, "pid"}, subnets : 0..MaxMatches,
                  networks : 0..MaxMatches, hosts : 0..MaxMatches]
    /\ remote \in {<<>>}
                  \cup {<<p>> : p \in [name : {"hp1", ""},
                                       ip_address : {"10.0.0.5", "10.0.0.9"},
                                       port_security_enabled : {"True", "False"},
                                       device : {"vm"}]}
    /\ hresult = [calls |-> <<>>, out |-> "pending", created |-> 0]
    /\ passNo = 0
    /\ connections = Idle /\ handlers = Idle
    /\ batch = {} /\ requires = <<>> /\ todo = {} /\ err = NoError
    /\ declared = Idle /\ desired = Idle /\ current = Idle
    /\ changes = Idle /\ calls = Idle /\ outcome = Idle /\ pc = Idle
    /\ prevDone = FALSE

\* One pass: list_changes (check_resource and _diff), then do_changes when
\* the changeset is not empty.
HostPortPass ==
    /\ hcall.fn = "HostPortHandler.execute"
    /\ passNo < MaxPortPasses
    /\ \E conflict \in BOOLEAN :
          LET c == [desired |-> hcall.desired, project |-> hcall.project,
                    subnets |-> hcall.subnets, networks |-> hcall.networks,
                    hosts |-> hcall.hosts, found |-> GetPort(remote)]
              read == ListChangesOf(HostPortCheckResource(c), c.desired,
                                    DOMAIN c.desired,
                                    [f \in Converters |-> "id"])
              r == HostPortDoChanges(c, read.changes, remote, conflict)
          IN IF read.out # "ok"
             THEN /\ hresult' = [hresult EXCEPT !.calls = <<>>,
                                                !.out = read.out]
                  /\ remote' = remote
             ELSE IF read.changes = NoChanges
             THEN /\ hresult' = [hresult EXCEPT !.calls = <<>>,
                                                !.out = "none"]
                  /\ remote' = remote
             ELSE /\ hresult' = [calls |-> r.calls, out |-> r.out,
                                 created |-> hresult.created
                                             + Len(r.ports) - Len(remote)]
                  /\ remote' = r.ports
    /\ passNo' = passNo + 1
    /\ UNCHANGED <<hcall, connections, handlers, depVars, declared, desired,
                   current, changes, calls, outcome, pc, prevDone>>

SpecPort == InitPort /\ [][HostPortPass]_vars

-----------------------------------------------------------------------------
(* Part VII: FloatingIP handlers sharing one pool of floating ips          *)

\* The floating ips neutron holds on the external network at the start.
MaxFips == 2

FipPorts == {"pa", "pb"}

\* Faulty variant: the floating ips of the project, associated or not.
FindFipsAnyPort(pool, project_id) ==
    SelectSeq([i \in 1..Len(pool) |-> i],
              LAMBDA i : pool[i].tenant = project_id)

\* FloatingIPHandler._find_available_fips: the ids, in the order neutron
\* lists them, of the floating ips of the project that have no port.  The
\* pool is the external network's, and a floating ip is identified by its
\* place in it.
FindAvailableFips(pool, project_id) ==
    SelectSeq([i \in 1..Len(pool) |-> i],
              LAMBDA i : pool[i].tenant = project_id
                         /\ pool[i].port_id = None)

\* FloatingIPHandler.get_floating_ip: the first floating ip of the port,
\* 0 standing for None.
GetFloatingIp(pool, port_id) ==
    LET own == SelectSeq([i \in 1..Len(pool) |-> i],
                         LAMBDA i : pool[i].port_id = port_id)
    IN IF own = <<>> THEN 0 ELSE Head(own)

\* FloatingIP resources, one per port of hcall.active, declared present or
\* purged and deployed by handlers that run concurrently: remote is the
\* pool, handlers[p] the position of the handler of the resource of port p
\* with its changeset, the floating ips it found, the one it wrote, the
\* calls it made and its end.
InitFip ==
    /\ \E active \in SUBSET FipPorts \ {{}} :
          hcall \in [fn : {"FloatingIPHandler.execute"},
                     project : {None, "pid"},
                     purged : [active -> BOOLEAN],
                     pool : {l \in UNION {[1..n -> [port_id : {None} \cup FipPorts,
                                                    tenant : {"pid", "other"}]] :
                                            n \in 0..MaxFips} :
                               \A i, j \in 1..Len(l) :
                                  (i # j /\ l[i].port_id # None)
                                      => l[i].port_id # l[j].port_id}]
    /\ remote = hcall.pool
    /\ handlers = [p \in DOMAIN hcall.purged |->
                      [pc |-> "start", changes |-> NoChanges, fip_id |-> 0,
                       found |-> <<>>, fip |-> 0, calls |-> <<>>,
                       out |-> "pending"]]
    /\ hresult = Idle /\ connections = Idle
    /\ batch = {} /\ requires = <<>> /\ todo = {} /\ err = NoError
    /\ declared = Idle /\ desired = Idle /\ current = Idle
    /\ changes = Idle /\ calls = Idle /\ outcome = Idle /\ pc = Idle
    /\ passNo = 0 /\ prevDone = FALSE

FipFrame ==
    UNCHANGED <<hcall, hresult, connections, depVars, declared, desired,
                current, changes, calls, outcome, pc, passNo, prevDone>>

\* list_changes: check_resource and the diff on purged.  get_floating_ip
\* is cached, so the purge branch of do_changes gets the id found here.
FipListChanges(p) ==
    /\ hcall.fn = "FloatingIPHandler.execute"
    /\ handlers[p].pc = "start"
    /\ LET fip == GetFloatingIp(remote, p)
           purged == fip = 0
           chg == IF purged # hcall.purged[p]
                  THEN [f \in {"purged"} |-> <<purged, hcall.purged[p]>>]
                  ELSE NoChanges
       IN handlers' = [handlers EXCEPT
                         ![p] = [@ EXCEPT
                                   !.changes = chg, !.fip_id = fip,
                                   !.pc = IF chg = NoChanges THEN "done"
                                          ELSE "diffed",
                                   !.out = IF chg = NoChanges THEN "none"
                                           ELSE @]]
    /\ remote' = remote
    /\ FipFrame

\* do_changes up to the answer of list_floatingips (create), or the whole
\* of the purge branch.
FipFind(p) ==
    /\ hcall.fn = "FloatingIPHandler.execute"
    /\ handlers[p].pc = "diffed"
    /\ IF handlers[p].changes["purged"][1]
       THEN /\ handlers' = [handlers EXCEPT
                              ![p] = [@ EXCEPT
                                        !.found = FindAvailableFips(
                                                      remote, hcall.project),
                                        !.pc = "found"]]
            /\ remote' = remote
       ELSE LET fip_id == handlers[p].fip_id
            IN /\ handlers' = [handlers EXCEPT
                                 ![p] = [@ EXCEPT
                                           !.calls = IF fip_id # 0
                                                     THEN <<"delete_floatingip">>
                                                     ELSE <<>>,
                                           !.out = "False", !.pc = "done"]]
               /\ remote' = IF fip_id # 0
                            THEN [remote EXCEPT ![fip_id].port_id = "deleted"]
                            ELSE remote
    /\ FipFrame

\* do_changes from the answer of list_floatingips on: update_floatingip of
\* the first floating ip found, or create_floatingip.
FipAct(p) ==
    /\ hcall.fn = "FloatingIPHandler.execute"
    /\ handlers[p].pc = "found"
    /\ LET available_fips == handlers[p].found
       IN IF Len(available_fips) > 0
          THEN /\ remote' = [remote EXCEPT ![available_fips[1]].port_id = p]
               /\ handlers' = [handlers EXCEPT
                                 ![p] = [@ EXCEPT
                                           !.fip = available_fips[1],
                                           !.calls = <<"update_floatingip">>,
                                           !.out = "True", !.pc = "done"]]
          ELSE /\ remote' = Append(remote, [port_id |-> p, tenant |-> "pid"])
               /\ handlers' = [handlers EXCEPT
                                 ![p] = [@ EXCEPT
                                           !.fip = Len(remote) + 1,
                                           !.calls = <<"create_floatingip">>,
                                           !.out = "True", !.pc = "done"]]
    /\ FipFrame

NextFip ==
    \/ \E p \in DOMAIN handlers : FipListChanges(p)
    \/ \E p \in DOMAIN handlers : FipFind(p)
    \/ \E p \in DOMAIN handlers : FipAct(p)

SpecFip == InitFip /\ [][NextFip]_vars

-----------------------------------------------------------------------------
(* Properties of dependency inference                                      *)

\* The resources r names in its fields: its project, user, network, subnet,
\* host or port.
RefsOf(r) ==
    {x \in { <<TProject, r.project>>, <<TUser, r.user>>,
             <<TNetwork, r.network>>, <<TNetwork, r.external_network>>,
             <<TSubnet, r.subnet>>, <<THost, r.host>>, <<THostPort, r.port>> }
           \cup {<<TSubnet, r.subnets[i]>> : i \in 1..Len(r.subnets)}
           \cup {<<TSubnet, r.ports[i]>> : i \in 1..Len(r.ports)} :
        x[2] # NoName}

Dangling(r) == RefsOf(r) \ Ids(batch)

\* C8: every dangling reference of the batch makes dependency inference fail
\* with an error that identifies the referencing resource and the missing
\* name: inference never returns normally over a batch with a dangling
\* reference, and an error it raises names a resource of the batch and a
\* name that resource references and the batch lacks.
C8_DanglingReferenceReported ==
    /\ DepsDone => \A r \in batch : Dangling(r) = {}
    /\ DepsFailed =>
          \E r \in batch :
              /\ err.referrer = r.name
              /\ \E d \in Dangling(r) : d[2] = err.missing

\* C9: when inference has returned over a batch with a Project p, a Network n
\* of project p and a Subnet s of network n and project p, n.requires holds p
\* and s.requires holds n and p.
C9_ProjectNetworkSubnetEdges ==
    DepsDone =>
        \A n \in Named(TNetwork), s \in Named(TSubnet) :
            (Has(TProject, n.project) /\ s.network = n.name
                                     /\ s.project = n.project)
            => /\ <<TProject, n.project>> \in requires[Id(n)]
               /\ {Id(n), <<TProject, n.project>>} \subseteq requires[Id(s)]

C9_Witness ==
    /\ DepsDone
    /\ \E n \in Named(TNetwork), s \in Named(TSubnet) :
          /\ Has(TProject, n.project)
          /\ s.network = n.name /\ s.project = n.project
          /\ s.name # n.name
          /\ Id(n) \in requires[Id(s)]

OwnedKinds == {TNetwork, TRouter, TSubnet, THost, THostPort}

\* C10: a visited Network, Router, Subnet, Host or HostPort has an edge to its
\* owning Project exactly when the Project is declared in the batch, and an
\* undeclared owning Project raises no error.
C10_OwningProjectRule ==
    \A r \in batch \ todo :
        r.kind \in OwnedKinds =>
            IF Has(TProject, r.project)
            THEN <<TProject, r.project>> \in requires[Id(r)]
            ELSE /\ <<TProject, r.project>> \notin requires[Id(r)]
                 /\ err # KeyError(r.project)

\* The edge from r to the resource of the given type and name.
HasEdge(r, kind, name) == <<kind, name>> \in requires[Id(r)]

\* C11: when inference has returned, every resource that names a declared
\* resource requires it: a Subnet its network, a Router every subnet of its
\* subnets list, a RouterPort its router, a HostPort its host, a FloatingIP
\* its port and its external network.
C11_NamedReferences ==
    DepsDone =>
        \A r \in batch :
            /\ (r.kind = TSubnet /\ Has(TNetwork, r.network))
                   => HasEdge(r, TNetwork, r.network)
            /\ r.kind = TRouter
                   => \A i \in 1..Len(r.subnets) :
                          Has(TSubnet, r.subnets[i])
                              => HasEdge(r, TSubnet, r.subnets[i])
            /\ (r.kind = TRouterPort /\ Has(TRouter, r.router))
                   => HasEdge(r, TRouter, r.router)
            /\ (r.kind = THostPort /\ Has(THost, r.host))
                   => HasEdge(r, THost, r.host)
            /\ (r.kind = TFloatingIP /\ Has(THostPort, r.port))
                   => HasEdge(r, THostPort, r.port)
            /\ (r.kind = TFloatingIP /\ Has(TNetwork, r.external_network))
                   => HasEdge(r, TNetwork, r.external_network)

\* The resources reached from the set S of ids along at most n requires
\* edges that stay in the batch.
RECURSIVE ReachedIn(_, _)
ReachedIn(S, n) ==
    IF n = 0 THEN S
    ELSE LET T == S \cup UNION {requires[i] \cap Ids(batch) : i \in S}
         IN IF T = S THEN S ELSE ReachedIn(T, n - 1)

\* i is on a cycle of the requires relation.
OnCycle(i) ==
    i \in ReachedIn(requires[i] \cap Ids(batch), Cardinality(batch))

\* C12: when inference has returned, the requires relation over the batch
\* has no cycle, whatever edges were declared before inference.
C12_Acyclic ==
    DepsDone => \A i \in Ids(batch) : ~OnCycle(i)

\* C24: a step of dependency inference only inserts requires edges: every
\* edge present before is present after, the resources of the batch keep
\* their attributes, and nothing outside the batch (no store, no handler
\* call) is touched.
C24_OnlyInsertsEdges ==
    [][/\ batch' = batch
       /\ DOMAIN requires' = DOMAIN requires
       /\ \A i \in DOMAIN requires : requires[i] \subseteq requires'[i]
       /\ UNCHANGED <<sgVars, hVars>>]_vars

\* Inference returned for a network that had a declared edge to a subnet
\* and gained the edge to its project.
C24_Witness ==
    /\ DepsDone
    /\ \E n \in Named(TNetwork), t \in Named(TSubnet) :
          {Id(t), <<TProject, n.project>>} \subseteq requires[Id(n)]

\* C38: when inference has returned, every HostPort requires the declared
\* Subnet whose name is the port's subnet field, and requires no subnet
\* found under the name of the port's network when the two names differ.
C38_PortRequiresItsSubnet ==
    DepsDone =>
        \A r \in Named(THostPort) :
            /\ Has(TSubnet, r.subnet) => HasEdge(r, TSubnet, r.subnet)
            /\ r.subnet # r.network => ~HasEdge(r, TSubnet, r.network)

-----------------------------------------------------------------------------
(* Properties of the SecurityGroup handler                                 *)

\* do_changes has been called in this pass.
Applied == pc = "end" /\ outcome # "ValueError"

\* C1: when the previous cycle over the resource completed without error,
\* the changeset that the read and diff of this pass compute is empty.
C1_SecondChangesetEmpty ==
    (pc = "diffed" /\ prevDone) => changes = NoChanges

CallOps == [i \in 1..Len(calls) |-> calls[i].op]

StructEq(a, b) ==
    [k \in DOMAIN a \ DunderKeys |-> a[k]]
        = [k \in DOMAIN b \ DunderKeys |-> b[k]]

\* The observed list C and the desired list D that the apply of this pass
\* was given (D as exported, before _update_rules wrote to its dicts).
ObservedC == current.rules
DesiredD == declared.rules

CallsOf(op) == {i \in 1..Len(calls) : calls[i].op = op}

\* _update_rules ran to its end in the apply of this pass: no adapter call
\* failed.
RulesUpdated ==
    /\ Applied
    /\ "rules" \in DOMAIN changes
    /\ outcome \in {"ok", "UnboundLocalError"}

\* C3: an apply whose rule update ran to its end has called create-rule once
\* for each rule of D with no structurally equal rule in C, delete-rule once
\* for each rule of C with no structurally equal rule in D, and made no
\* other rule call.
C3_SetDecomposition ==
    RulesUpdated =>
        LET add == {j \in 1..Len(DesiredD) :
                       \A i \in 1..Len(ObservedC) :
                           ~StructEq(ObservedC[i], DesiredD[j])}
            del == {i \in 1..Len(ObservedC) :
                       \A j \in 1..Len(DesiredD) :
                           ~StructEq(ObservedC[i], DesiredD[j])}
        IN /\ Cardinality(CallsOf("create_security_group_rule"))
                  = Cardinality(add)
           /\ Cardinality(CallsOf("delete_security_group_rule"))
                  = Cardinality(del)
           /\ {calls[c].arg.rule_id : c \in CallsOf("delete_security_group_rule")}
                  = {ObservedC[i]["__id"] : i \in del}

\* C4: after the read of a pass, the observed purged flag is true exactly
\* when neutron holds no group of the resource's name.
C4_ObservedPurged ==
    pc = "diffed" => (current.purged <=> ~HasGroup(remote, SgName))

\* C19: computing a changeset (_diff and list_changes) leaves both resources
\* as they were: the desired resource keeps every attribute and its rule
\* list, and the observed resource is what check_resource built from the
\* store, rule list included.
C19_DiffMutatesNothing ==
    [][SgListChanges => /\ desired' = desired
                        /\ current' = CheckResource(desired, remote)]_vars

\* A changeset was computed in which the matching loop removed a pair from
\* its two lists and left a rule behind on each side.
C19_Witness ==
    /\ pc = "diffed"
    /\ "rules" \in DOMAIN changes
    /\ Len(current.rules) = 2 /\ Len(desired.rules) = 2
    /\ \E i, j \in 1..2 : CompareRule(current.rules[i], desired.rules[j])
    /\ \E i \in 1..2 :
          \A j \in 1..2 : ~CompareRule(current.rules[i], desired.rules[j])

\* C25 (for a SecurityGroup): a group that is declared purged and exists
\* in the store is eventually deleted.
C25_PurgeLiveness ==
    (declared.purged /\ HasGroup(remote, SgName))
        ~> ~HasGroup(remote, SgName)

\* C20: apply leaves the declared rules of the desired resource as they
\* were: after do_changes every rule of resource.rules has the keys and
\* values of its declaration.
C20_DeclaredRulesKept ==
    (pc = "end" /\ calls # <<>>) => desired.rules = declared.rules

\* C28: within one rule update every create-rule call comes before every
\* delete-rule call, and a delete-rule call is made only when no create
\* call failed.
C28_CreatesBeforeDeletes ==
    /\ \A c \in CallsOf("create_security_group_rule"),
          d \in CallsOf("delete_security_group_rule") : c < d
    /\ CallsOf("delete_security_group_rule") # {}
           => outcome \in {"ok", "UnboundLocalError"}

\* A rule update that created a rule and then deleted one.
C28_Witness ==
    /\ pc = "end"
    /\ CallsOf("create_security_group_rule") # {}
    /\ CallsOf("delete_security_group_rule") # {}

\* C29: the changeset list_changes returns holds the key rules exactly when
\* some desired rule has no structurally equal observed rule or some
\* observed rule has no structurally equal desired rule.
C29_RulesKeyIffUnmatched ==
    pc = "diffed" =>
        ("rules" \in DOMAIN changes
            <=> \/ \E j \in 1..Len(desired.rules) :
                      \A i \in 1..Len(current.rules) :
                          ~StructEq(current.rules[i], desired.rules[j])
                \/ \E i \in 1..Len(current.rules) :
                      \A j \in 1..Len(desired.rules) :
                          ~StructEq(current.rules[i], desired.rules[j]))

\* C30: the rule matching of list_changes and _update_rules completes
\* without error, whatever duplicates the two lists hold.
C30_MatchingCompletes == outcome # "ValueError"

\* C37: an apply over a changeset that is not empty and holds no purged,
\* in which neutron refuses no call and the rule matching completes, ends
\* normally with the value true.
C37_UpdateReturnsTrue ==
    (/\ pc = "end" /\ changes # NoChanges /\ "purged" \notin DOMAIN changes
     /\ outcome \notin {"Conflict", "NotFound", "Exception", "KeyError",
                        "NameError", "ValueError"})
        => outcome = "ok"

-----------------------------------------------------------------------------
(* Properties of the connection handles                                    *)

\* The pre call of handler h has ended, by return or by exception.
PreEnded(h) == handlers[h].pc = "done"

SameCredentials(g, h) ==
    handlers[g].cls = handlers[h].cls /\ handlers[g].key = handlers[h].key

\* C13: every handler whose pre has ended holds a handle, handlers with
\* identical credentials hold the same handle, and for one credential tuple
\* at most one handle was ever constructed.
C13_ConstructOnce ==
    /\ \A h \in DOMAIN handlers :
          PreEnded(h) => handlers[h].client # NoHandle
    /\ \A g, h \in DOMAIN handlers :
          (PreEnded(g) /\ PreEnded(h) /\ SameCredentials(g, h))
              => handlers[g].client = handlers[h].client
    /\ \A h \in DOMAIN handlers :
          Cardinality(UNION {handlers[g].built :
                                g \in {f \in DOMAIN handlers :
                                          SameCredentials(f, h)}}) <= 1

-----------------------------------------------------------------------------
(* Properties of single handler calls                                      *)

\* The call of this behaviour has ended, by return or by exception.
CallEnded == hresult # Pending

\* C15: a do_changes that was given the empty changeset has made no
\* mutating adapter call.
C15_EmptyChangesetNoCall ==
    (CallEnded /\ hcall.fn \in DoChangesFns /\ hcall.changes = NoChanges)
        => hresult.calls = <<>>

\* No lookup of the call finds more than one object of a name.
Unambiguous == \A f \in {"networks", "subnets", "routers"} : hcall[f] <= 1

\* A resource the call depends on has no remote id yet: the subnet's
\* network, or the router port's subnet, network or router.
Unresolved ==
    CASE hcall.fn = "SubnetHandler.do_changes" -> hcall.networks = 0
      [] hcall.fn = "RouterPortHandler.do_changes" ->
             0 \in {hcall.subnets, hcall.networks, hcall.routers}
      [] OTHER -> FALSE

\* C16: an apply that cannot resolve a resource it depends on to a remote
\* id ends with SkipResource.
C16_UnresolvedIsSkip ==
    (CallEnded /\ Unambiguous /\ Unresolved) => hresult.out = "SkipResource"

\* C17: a read that finds more than one remote object of the resource's
\* name does not report the resource as absent (nor as present): it ends
\* with an error.
C17_AmbiguousNameIsError ==
    (/\ CallEnded
     /\ hcall.fn = "NetworkHandler.read_resource"
     /\ hcall.fails = "none"
     /\ hcall.matches > 1)
        => hresult.out \notin {"ResourcePurged", "ok"}

FactsFns == {"VMHandler.facts", "NetworkHandler.facts", "RouterHandler.facts"}

\* C18: facts never raises, and when an adapter call fails while facts are
\* gathered it returns the empty mapping.
C18_FactsNeverRaise ==
    (CallEnded /\ hcall.fn \in FactsFns)
        => /\ hresult.out \in {NoFacts, SomeFacts}
           /\ hcall.fails # "none" => hresult.out = NoFacts

\* The collection-valued fields whose change is applied element by
\* element, per handler.
CollectionFields ==
    [fn \in {"RouterHandler.do_changes", "VMHandler.do_changes"} |->
        IF fn = "VMHandler.do_changes" THEN {"security_groups"}
        ELSE {"subnets", "routes"}]

\* The calls of a sequence that are among ops.
Made(ops) == Len(SelectSeq(hresult.calls, LAMBDA x : x \in ops))

\* C23: for a change of Router.subnets, Router.routes or
\* Host.security_groups on a resource that exists and whose lookups
\* resolve, apply issues one add call per element desired and not observed
\* and one remove call per element observed and not desired, and sends no
\* whole collection.
C23_ElementwiseApply ==
    (/\ CallEnded /\ hcall.fn \in DOMAIN CollectionFields
     /\ hcall.project # None /\ hcall.subnets = 1 /\ hcall.matches = 1
     /\ \E f \in CollectionFields[hcall.fn] : f \in DOMAIN hcall.changes)
        => LET f == CHOOSE g \in CollectionFields[hcall.fn] :
                        g \in DOMAIN hcall.changes
               cur == hcall.changes[f][1]
               des == hcall.changes[f][2]
           IN /\ Made({"add_interface_router",
                       "servers.add_security_group"})
                     = Cardinality(des \ cur)
              /\ Made({"remove_interface_router",
                       "servers.remove_security_group"})
                     = Cardinality(cur \ des)
              /\ Made({"update_router(routes)"}) = 0

\* C36: a do_changes that returns has returned true exactly when it issued
\* at least one call that writes to the remote API.
C36_ChangedIffCalled ==
    (CallEnded /\ hcall.fn \in DoChangesFns
     /\ hresult.out \in {"True", "False"})
        => (hresult.out = "True" <=> hresult.calls # <<>>)

-----------------------------------------------------------------------------
(* Properties of reads and diffs                                           *)

ListChangesFns == {"HostPortHandler.list_changes", "SubnetHandler.list_changes"}

\* C21: the changeset of _diff has as keys exactly the fields whose observed
\* value differs from the desired one, each with the pair (observed value,
\* desired value).
C21_DiffIsExact ==
    (CallEnded /\ hcall.fn \in ListChangesFns /\ hresult.out = "ok")
        => /\ DOMAIN hresult.changes \subseteq DOMAIN hcall.desired
           /\ \A f \in DOMAIN hcall.desired :
                 /\ f \in DOMAIN hresult.changes
                        <=> hresult.current[f] # hcall.desired[f]
                 /\ f \in DOMAIN hresult.changes
                        => hresult.changes[f]
                               = <<hresult.current[f], hcall.desired[f]>>

\* A port was read whose address differs from the declared one and whose
\* port security equals it.
C21_Witness ==
    /\ CallEnded /\ hcall.fn = "HostPortHandler.list_changes"
    /\ hresult.out = "ok"
    /\ hcall.found # <<>>
    /\ "address" \in DOMAIN hresult.changes
    /\ "portsecurity" \notin DOMAIN hresult.changes
    /\ "purged" \notin DOMAIN hresult.changes

\* C22: for a Subnet that exists, the diff reports network as changed
\* exactly when the id found for the desired network name differs from the
\* network_id observed.
C22_IdLevelComparison ==
    (/\ CallEnded /\ hcall.fn = "SubnetHandler.list_changes"
     /\ hcall.found # <<>>)
        => ("network" \in DOMAIN hresult.changes
                <=> hcall.found[1].network_id # hcall.resolved)

\* C26: for a Role the changeset is empty or holds purged alone, and
\* update_resource is not invoked.
C26_RoleNeverUpdated ==
    (CallEnded /\ hcall.fn = "RoleHandler.execute")
        => /\ DOMAIN hresult.changes \subseteq {"purged"}
           /\ hresult.op # "update_resource"
           /\ hresult.out # AssertFalse

\* A Role that is declared and not granted was read: create_resource is
\* invoked.
C26_Witness ==
    /\ CallEnded /\ hcall.fn = "RoleHandler.execute"
    /\ hresult.op = "create_resource"
    /\ hcall.role /\ hcall.bartvb /\ ~hcall.granted

\* C32: a Role handler calls roles.create only when keystone holds no role
\* of the declared name, whichever users keystone holds.
C32_CreatesOnlyMissingRole ==
    (CallEnded /\ hcall.fn = "RoleHandler.execute" /\ hcall.role)
        => \A i \in 1..Len(hresult.calls) : hresult.calls[i] # "roles.create"

\* C27: for an EndPoint create_resource is not invoked, so its assertion is
\* not reached.
C27_EndpointNeverCreated ==
    (CallEnded /\ hcall.fn = "EndpointHandler.execute")
        => hresult.op # "create_resource" /\ hresult.out # AssertFalse

-----------------------------------------------------------------------------
(* Properties of the passes over a HostPort                                *)

\* C31: over the passes run for one HostPort at most one port is created on
\* neutron, also when a pass created the port and ended in SkipResource
\* because nova answered the attach with Conflict.
C31_OnePortCreated ==
    hcall.fn = "HostPortHandler.execute" => hresult.created <= 1

-----------------------------------------------------------------------------
(* Properties of the FloatingIP handlers                                   *)

FipRun == hcall.fn = "FloatingIPHandler.execute"

\* The handler of port p ran the create branch of do_changes to its end.
FipCreated(p) ==
    /\ p \in DOMAIN handlers
    /\ handlers[p].pc = "done"
    /\ "purged" \in DOMAIN handlers[p].changes
    /\ handlers[p].changes["purged"][1]

\* C33: a create that runs alone, with the project resolved, associates a
\* floating ip of the project that had no port when the pool held one and
\* allocates a new one only when it held none; afterwards exactly one
\* floating ip is associated with the port.
C33_ReusesAvailableFip ==
    \A p \in FipPorts :
        (FipRun /\ DOMAIN handlers = {p} /\ hcall.project # None
         /\ FipCreated(p))
            => LET free == {i \in 1..Len(hcall.pool) :
                               /\ hcall.pool[i].port_id = None
                               /\ hcall.pool[i].tenant = hcall.project}
               IN /\ free # {}
                      => /\ handlers[p].calls = <<"update_floatingip">>
                         /\ handlers[p].fip \in free
                         /\ Len(remote) = Len(hcall.pool)
                  /\ free = {}
                      => /\ handlers[p].calls = <<"create_floatingip">>
                         /\ Len(remote) = Len(hcall.pool) + 1
                  /\ Cardinality({i \in 1..Len(remote) :
                                     remote[i].port_id = p}) = 1
                  /\ \A i \in 1..Len(hcall.pool) :
                         i # handlers[p].fip => remote[i] = hcall.pool[i]

\* A create that ran alone found a floating ip without port in a pool that
\* also holds one of another port, and associated it.
C33_Witness ==
    /\ FipRun /\ DOMAIN handlers = {"pa"} /\ hcall.project # None
    /\ FipCreated("pa")
    /\ handlers["pa"].calls = <<"update_floatingip">>
    /\ \E i \in 1..Len(hcall.pool) : hcall.pool[i].port_id = "pb"

\* C34: when the creates of two FloatingIP resources of different ports
\* have both ended, they wrote different floating ips and each port has a
\* floating ip associated.
C34_ConcurrentCreatesDisjoint ==
    (FipRun /\ FipCreated("pa") /\ FipCreated("pb"))
        => /\ handlers["pa"].fip # handlers["pb"].fip
           /\ \A p \in FipPorts :
                 \E i \in 1..Len(remote) : remote[i].port_id = p

\* C35: with the project unresolved, a FloatingIP handler that ran the
\* create branch of do_changes made no call that writes and ended in
\* SkipResource.
C35_NoCreateWithoutProject ==
    (FipRun /\ hcall.project = None)
        => \A p \in FipPorts :
              FipCreated(p) => /\ handlers[p].calls = <<>>
                               /\ handlers[p].out = "SkipResource"

=============================================================================
